---------------------------- MODULE Spec2Model ----------------------------
(***************************************************************************)
(* Model of photon/library/os_stats.h of Eclipse SWT: the optional         *)
(* call-count instrumentation of the Photon native binding layer.          *)
(*                                                                         *)
(* The header holds                                                        *)
(*   - the declarations of the two tables (lines 13-14),                   *)
(*   - the macros OS_NATIVE_ENTER / OS_NATIVE_EXIT in the two build        *)
(*     configurations selected by NATIVE_STATS (lines 12-20),              *)
(*   - one "#define <entry point>_FUNC <identifier>" per native entry      *)
(*     point (lines 22-306).                                               *)
(*                                                                         *)
(* Three specifications are given:                                         *)
(*   SpecDefines  the preprocessor reading the #define lines 22-306 one    *)
(*                by one and building its macro table;                     *)
(*   Spec         the compiled program: threads running native-call        *)
(*                trampolines that expand OS_NATIVE_ENTER / OS_NATIVE_EXIT *)
(*                around the native call;                                  *)
(*   SpecReport   Spec together with the reporting routine, which reads    *)
(*                both tables and is not part of the header.               *)
(***************************************************************************)
EXTENDS Integers, Sequences, FiniteSets, Bags, TLC

(***************************************************************************)
(* Lines 22-306 in source order.  Each entry is                            *)
(*   << the bytes of the macro identifier, the value it is defined as >>.  *)
(* The comment above an entry gives its source line and its text.          *)
(***************************************************************************)
FuncDefines == <<
  \* 22: PfDecomposeStemToID_FUNC
  << <<80,102,68,101,99,111,109,112,111,115,101,83,116,101,109,84,111,73,68,95,70,85,78,67>>, 0 >>,
  \* 23: PfExtentText__Lorg_eclipse_swt_internal_photon_PhRect_1t_2Lorg_eclipse_swt_internal_photon_PhPoint_1t_2III_FUNC
  << <<80,102,69,120,116,101,110,116,84,101,120,116,95,95,76,111,114,103,95,101,99,108,105,112,115,101,95,115,119,116,95,105,110,116,101,114,110,97,108,95,112,104,111,116,111,110,95,80,104,82,101,99,116,95,49,116,95,50,76,111,114,103,95,101,99,108,105,112,115,101,95,115,119,116,95,105,110,116,101,114,110,97,108,95,112,104,111,116,111,110,95,80,104,80,111,105,110,116,95,49,116,95,50,73,73,73,95,70,85,78,67>>, 1 >>,
  \* 24: PfExtentText__Lorg_eclipse_swt_internal_photon_PhRect_1t_2Lorg_eclipse_swt_internal_photon_PhPoint_1t_2_3B_3BI_FUNC
  << <<80,102,69,120,116,101,110,116,84,101,120,116,95,95,76,111,114,103,95,101,99,108,105,112,115,101,95,115,119,116,95,105,110,116,101,114,110,97,108,95,112,104,111,116,111,110,95,80,104,82,101,99,116,95,49,116,95,50,76,111,114,103,95,101,99,108,105,112,115,101,95,115,119,116,95,105,110,116,101,114,110,97,108,95,112,104,111,116,111,110,95,80,104,80,111,105,110,116,95,49,116,95,50,95,51,66,95,51,66,73,95,70,85,78,67>>, 2 >>,
  \* 25: PfExtentWideText_FUNC
  << <<80,102,69,120,116,101,110,116,87,105,100,101,84,101,120,116,95,70,85,78,67>>, 3 >>,
  \* 26: PfFontDescription_FUNC
  << <<80,102,70,111,110,116,68,101,115,99,114,105,112,116,105,111,110,95,70,85,78,67>>, 4 >>,
  \* 27: PfFontFlags_FUNC
  << <<80,102,70,111,110,116,70,108,97,103,115,95,70,85,78,67>>, 5 >>,
  \* 28: PfFontSize_FUNC
  << <<80,102,70,111,110,116,83,105,122,101,95,70,85,78,67>>, 6 >>,
  \* 29: PfFreeFont_FUNC
  << <<80,102,70,114,101,101,70,111,110,116,95,70,85,78,67>>, 7 >>,
  \* 30: PfGenerateFontName_FUNC
  << <<80,102,71,101,110,101,114,97,116,101,70,111,110,116,78,97,109,101,95,70,85,78,67>>, 8 >>,
  \* 31: PfLoadMetrics_FUNC
  << <<80,102,76,111,97,100,77,101,116,114,105,99,115,95,70,85,78,67>>, 9 >>,
  \* 32: PfQueryFontInfo_FUNC
  << <<80,102,81,117,101,114,121,70,111,110,116,73,110,102,111,95,70,85,78,67>>, 10 >>,
  \* 33: PfQueryFonts_FUNC
  << <<80,102,81,117,101,114,121,70,111,110,116,115,95,70,85,78,67>>, 11 >>,
  \* 34: PgAlphaOff_FUNC
  << <<80,103,65,108,112,104,97,79,102,102,95,70,85,78,67>>, 12 >>,
  \* 35: PgAlphaOn_FUNC
  << <<80,103,65,108,112,104,97,79,110,95,70,85,78,67>>, 13 >>,
  \* 36: PgCreateGC_FUNC
  << <<80,103,67,114,101,97,116,101,71,67,95,70,85,78,67>>, 14 >>,
  \* 37: PgDestroyGC_FUNC
  << <<80,103,68,101,115,116,114,111,121,71,67,95,70,85,78,67>>, 15 >>,
  \* 38: PgDrawArc_FUNC
  << <<80,103,68,114,97,119,65,114,99,95,70,85,78,67>>, 16 >>,
  \* 39: PgDrawArrow_FUNC
  << <<80,103,68,114,97,119,65,114,114,111,119,95,70,85,78,67>>, 17 >>,
  \* 40: PgDrawBitmap_FUNC
  << <<80,103,68,114,97,119,66,105,116,109,97,112,95,70,85,78,67>>, 18 >>,
  \* 41: PgDrawEllipse_FUNC
  << <<80,103,68,114,97,119,69,108,108,105,112,115,101,95,70,85,78,67>>, 19 >>,
  \* 42: PgDrawGradient_FUNC
  << <<80,103,68,114,97,119,71,114,97,100,105,101,110,116,95,70,85,78,67>>, 20 >>,
  \* 43: PgDrawILine_FUNC
  << <<80,103,68,114,97,119,73,76,105,110,101,95,70,85,78,67>>, 21 >>,
  \* 44: PgDrawIPixel_FUNC
  << <<80,103,68,114,97,119,73,80,105,120,101,108,95,70,85,78,67>>, 22 >>,
  \* 45: PgDrawIRect_FUNC
  << <<80,103,68,114,97,119,73,82,101,99,116,95,70,85,78,67>>, 23 >>,
  \* 46: PgDrawImage_FUNC
  << <<80,103,68,114,97,119,73,109,97,103,101,95,70,85,78,67>>, 24 >>,
  \* 47: PgDrawMultiTextArea_FUNC
  << <<80,103,68,114,97,119,77,117,108,116,105,84,101,120,116,65,114,101,97,95,70,85,78,67>>, 25 >>,
  \* 48: PgDrawPhImageRectmx_FUNC
  << <<80,103,68,114,97,119,80,104,73,109,97,103,101,82,101,99,116,109,120,95,70,85,78,67>>, 26 >>,
  \* 49: PgDrawPolygon_FUNC
  << <<80,103,68,114,97,119,80,111,108,121,103,111,110,95,70,85,78,67>>, 27 >>,
  \* 50: PgDrawRoundRect_FUNC
  << <<80,103,68,114,97,119,82,111,117,110,100,82,101,99,116,95,70,85,78,67>>, 28 >>,
  \* 51: PgDrawTImage_FUNC
  << <<80,103,68,114,97,119,84,73,109,97,103,101,95,70,85,78,67>>, 29 >>,
  \* 52: PgDrawText_FUNC
  << <<80,103,68,114,97,119,84,101,120,116,95,70,85,78,67>>, 30 >>,
  \* 53: PgExtentMultiText_FUNC
  << <<80,103,69,120,116,101,110,116,77,117,108,116,105,84,101,120,116,95,70,85,78,67>>, 31 >>,
  \* 54: PgFlush_FUNC
  << <<80,103,70,108,117,115,104,95,70,85,78,67>>, 32 >>,
  \* 55: PgGetVideoMode_FUNC
  << <<80,103,71,101,116,86,105,100,101,111,77,111,100,101,95,70,85,78,67>>, 33 >>,
  \* 56: PgGetVideoModeInfo_FUNC
  << <<80,103,71,101,116,86,105,100,101,111,77,111,100,101,73,110,102,111,95,70,85,78,67>>, 34 >>,
  \* 57: PgReadScreen_FUNC
  << <<80,103,82,101,97,100,83,99,114,101,101,110,95,70,85,78,67>>, 35 >>,
  \* 58: PgReadScreenSize_FUNC
  << <<80,103,82,101,97,100,83,99,114,101,101,110,83,105,122,101,95,70,85,78,67>>, 36 >>,
  \* 59: PgSetAlpha_FUNC
  << <<80,103,83,101,116,65,108,112,104,97,95,70,85,78,67>>, 37 >>,
  \* 60: PgSetClipping_FUNC
  << <<80,103,83,101,116,67,108,105,112,112,105,110,103,95,70,85,78,67>>, 38 >>,
  \* 61: PgSetDrawBufferSize_FUNC
  << <<80,103,83,101,116,68,114,97,119,66,117,102,102,101,114,83,105,122,101,95,70,85,78,67>>, 39 >>,
  \* 62: PgSetDrawMode_FUNC
  << <<80,103,83,101,116,68,114,97,119,77,111,100,101,95,70,85,78,67>>, 40 >>,
  \* 63: PgSetFillColor_FUNC
  << <<80,103,83,101,116,70,105,108,108,67,111,108,111,114,95,70,85,78,67>>, 41 >>,
  \* 64: PgSetFillTransPat_FUNC
  << <<80,103,83,101,116,70,105,108,108,84,114,97,110,115,80,97,116,95,70,85,78,67>>, 42 >>,
  \* 65: PgSetFont_FUNC
  << <<80,103,83,101,116,70,111,110,116,95,70,85,78,67>>, 43 >>,
  \* 66: PgSetGC_FUNC
  << <<80,103,83,101,116,71,67,95,70,85,78,67>>, 44 >>,
  \* 67: PgSetMultiClip_FUNC
  << <<80,103,83,101,116,77,117,108,116,105,67,108,105,112,95,70,85,78,67>>, 45 >>,
  \* 68: PgSetPalette_FUNC
  << <<80,103,83,101,116,80,97,108,101,116,116,101,95,70,85,78,67>>, 46 >>,
  \* 69: PgSetRegion_FUNC
  << <<80,103,83,101,116,82,101,103,105,111,110,95,70,85,78,67>>, 47 >>,
  \* 70: PgSetStrokeCap_FUNC
  << <<80,103,83,101,116,83,116,114,111,107,101,67,97,112,95,70,85,78,67>>, 48 >>,
  \* 71: PgSetStrokeColor_FUNC
  << <<80,103,83,101,116,83,116,114,111,107,101,67,111,108,111,114,95,70,85,78,67>>, 49 >>,
  \* 72: PgSetStrokeDash_FUNC
  << <<80,103,83,101,116,83,116,114,111,107,101,68,97,115,104,95,70,85,78,67>>, 50 >>,
  \* 73: PgSetStrokeWidth_FUNC
  << <<80,103,83,101,116,83,116,114,111,107,101,87,105,100,116,104,95,70,85,78,67>>, 51 >>,
  \* 74: PgSetTextColor_FUNC
  << <<80,103,83,101,116,84,101,120,116,67,111,108,111,114,95,70,85,78,67>>, 52 >>,
  \* 75: PgSetTextXORColor_FUNC
  << <<80,103,83,101,116,84,101,120,116,88,79,82,67,111,108,111,114,95,70,85,78,67>>, 53 >>,
  \* 76: PgSetUserClip_FUNC
  << <<80,103,83,101,116,85,115,101,114,67,108,105,112,95,70,85,78,67>>, 54 >>,
  \* 77: PgShmemCreate_FUNC
  << <<80,103,83,104,109,101,109,67,114,101,97,116,101,95,70,85,78,67>>, 55 >>,
  \* 78: PgShmemDestroy_FUNC
  << <<80,103,83,104,109,101,109,68,101,115,116,114,111,121,95,70,85,78,67>>, 56 >>,
  \* 79: PhAddMergeTiles_FUNC
  << <<80,104,65,100,100,77,101,114,103,101,84,105,108,101,115,95,70,85,78,67>>, 57 >>,
  \* 80: PhAreaToRect_FUNC
  << <<80,104,65,114,101,97,84,111,82,101,99,116,95,70,85,78,67>>, 58 >>,
  \* 81: PhBlit_FUNC
  << <<80,104,66,108,105,116,95,70,85,78,67>>, 59 >>,
  \* 82: PhClipTilings_FUNC
  << <<80,104,67,108,105,112,84,105,108,105,110,103,115,95,70,85,78,67>>, 60 >>,
  \* 83: PhClipboardCopy_FUNC
  << <<80,104,67,108,105,112,98,111,97,114,100,67,111,112,121,95,70,85,78,67>>, 61 >>,
  \* 84: PhClipboardCopyString_FUNC
  << <<80,104,67,108,105,112,98,111,97,114,100,67,111,112,121,83,116,114,105,110,103,95,70,85,78,67>>, 62 >>,
  \* 85: PhClipboardPasteFinish_FUNC
  << <<80,104,67,108,105,112,98,111,97,114,100,80,97,115,116,101,70,105,110,105,115,104,95,70,85,78,67>>, 63 >>,
  \* 86: PhClipboardPasteStart_FUNC
  << <<80,104,67,108,105,112,98,111,97,114,100,80,97,115,116,101,83,116,97,114,116,95,70,85,78,67>>, 64 >>,
  \* 87: PhClipboardPasteString_FUNC
  << <<80,104,67,108,105,112,98,111,97,114,100,80,97,115,116,101,83,116,114,105,110,103,95,70,85,78,67>>, 65 >>,
  \* 88: PhClipboardPasteType_FUNC
  << <<80,104,67,108,105,112,98,111,97,114,100,80,97,115,116,101,84,121,112,101,95,70,85,78,67>>, 66 >>,
  \* 89: PhClipboardPasteTypeN_FUNC
  << <<80,104,67,108,105,112,98,111,97,114,100,80,97,115,116,101,84,121,112,101,78,95,70,85,78,67>>, 67 >>,
  \* 90: PhCoalesceTiles_FUNC
  << <<80,104,67,111,97,108,101,115,99,101,84,105,108,101,115,95,70,85,78,67>>, 68 >>,
  \* 91: PhCopyTiles_FUNC
  << <<80,104,67,111,112,121,84,105,108,101,115,95,70,85,78,67>>, 69 >>,
  \* 92: PhCreateImage_FUNC
  << <<80,104,67,114,101,97,116,101,73,109,97,103,101,95,70,85,78,67>>, 70 >>,
  \* 93: PhDCSetCurrent_FUNC
  << <<80,104,68,67,83,101,116,67,117,114,114,101,110,116,95,70,85,78,67>>, 71 >>,
  \* 94: PhDeTranslateTiles_FUNC
  << <<80,104,68,101,84,114,97,110,115,108,97,116,101,84,105,108,101,115,95,70,85,78,67>>, 72 >>,
  \* 95: PhEventNext_FUNC
  << <<80,104,69,118,101,110,116,78,101,120,116,95,70,85,78,67>>, 73 >>,
  \* 96: PhEventPeek_FUNC
  << <<80,104,69,118,101,110,116,80,101,101,107,95,70,85,78,67>>, 74 >>,
  \* 97: PhFreeTiles_FUNC
  << <<80,104,70,114,101,101,84,105,108,101,115,95,70,85,78,67>>, 75 >>,
  \* 98: PhGetData_FUNC
  << <<80,104,71,101,116,68,97,116,97,95,70,85,78,67>>, 76 >>,
  \* 99: PhGetMsgSize_FUNC
  << <<80,104,71,101,116,77,115,103,83,105,122,101,95,70,85,78,67>>, 77 >>,
  \* 100: PhGetRects_FUNC
  << <<80,104,71,101,116,82,101,99,116,115,95,70,85,78,67>>, 78 >>,
  \* 101: PhGetTile_FUNC
  << <<80,104,71,101,116,84,105,108,101,95,70,85,78,67>>, 79 >>,
  \* 102: PhInitDrag_FUNC
  << <<80,104,73,110,105,116,68,114,97,103,95,70,85,78,67>>, 80 >>,
  \* 103: PhInputGroup_FUNC
  << <<80,104,73,110,112,117,116,71,114,111,117,112,95,70,85,78,67>>, 81 >>,
  \* 104: PhIntersectTilings_FUNC
  << <<80,104,73,110,116,101,114,115,101,99,116,84,105,108,105,110,103,115,95,70,85,78,67>>, 82 >>,
  \* 105: PhKeyToMb_FUNC
  << <<80,104,75,101,121,84,111,77,98,95,70,85,78,67>>, 83 >>,
  \* 106: PhMakeGhostBitmap_FUNC
  << <<80,104,77,97,107,101,71,104,111,115,116,66,105,116,109,97,112,95,70,85,78,67>>, 84 >>,
  \* 107: PhMakeTransBitmap_FUNC
  << <<80,104,77,97,107,101,84,114,97,110,115,66,105,116,109,97,112,95,70,85,78,67>>, 85 >>,
  \* 108: PhMergeTiles_FUNC
  << <<80,104,77,101,114,103,101,84,105,108,101,115,95,70,85,78,67>>, 86 >>,
  \* 109: PhMoveCursorAbs_FUNC
  << <<80,104,77,111,118,101,67,117,114,115,111,114,65,98,115,95,70,85,78,67>>, 87 >>,
  \* 110: PhQueryCursor_FUNC
  << <<80,104,81,117,101,114,121,67,117,114,115,111,114,95,70,85,78,67>>, 88 >>,
  \* 111: PhQueryRids_FUNC
  << <<80,104,81,117,101,114,121,82,105,100,115,95,70,85,78,67>>, 89 >>,
  \* 112: PhRectIntersect_FUNC
  << <<80,104,82,101,99,116,73,110,116,101,114,115,101,99,116,95,70,85,78,67>>, 90 >>,
  \* 113: PhRectUnion__II_FUNC
  << <<80,104,82,101,99,116,85,110,105,111,110,95,95,73,73,95,70,85,78,67>>, 91 >>,
  \* 114: PhRectUnion__Lorg_eclipse_swt_internal_photon_PhRect_1t_2Lorg_eclipse_swt_internal_photon_PhRect_1t_2_FUNC
  << <<80,104,82,101,99,116,85,110,105,111,110,95,95,76,111,114,103,95,101,99,108,105,112,115,101,95,115,119,116,95,105,110,116,101,114,110,97,108,95,112,104,111,116,111,110,95,80,104,82,101,99,116,95,49,116,95,50,76,111,114,103,95,101,99,108,105,112,115,101,95,115,119,116,95,105,110,116,101,114,110,97,108,95,112,104,111,116,111,110,95,80,104,82,101,99,116,95,49,116,95,50,95,70,85,78,67>>, 92 >>,
  \* 115: PhRectsToTiles_FUNC
  << <<80,104,82,101,99,116,115,84,111,84,105,108,101,115,95,70,85,78,67>>, 93 >>,
  \* 116: PhRegionQuery_FUNC
  << <<80,104,82,101,103,105,111,110,81,117,101,114,121,95,70,85,78,67>>, 94 >>,
  \* 117: PhReleaseImage_FUNC
  << <<80,104,82,101,108,101,97,115,101,73,109,97,103,101,95,70,85,78,67>>, 95 >>,
  \* 118: PhSortTiles_FUNC
  << <<80,104,83,111,114,116,84,105,108,101,115,95,70,85,78,67>>, 96 >>,
  \* 119: PhTilesToRects_FUNC
  << <<80,104,84,105,108,101,115,84,111,82,101,99,116,115,95,70,85,78,67>>, 97 >>,
  \* 120: PhTranslateTiles_FUNC
  << <<80,104,84,114,97,110,115,108,97,116,101,84,105,108,101,115,95,70,85,78,67>>, 98 >>,
  \* 121: PhWindowQueryVisible_FUNC
  << <<80,104,87,105,110,100,111,119,81,117,101,114,121,86,105,115,105,98,108,101,95,70,85,78,67>>, 99 >>,
  \* 122: PiCropImage_FUNC
  << <<80,105,67,114,111,112,73,109,97,103,101,95,70,85,78,67>>, 100 >>,
  \* 123: PiDuplicateImage_FUNC
  << <<80,105,68,117,112,108,105,99,97,116,101,73,109,97,103,101,95,70,85,78,67>>, 101 >>,
  \* 124: PmMemCreateMC_FUNC
  << <<80,109,77,101,109,67,114,101,97,116,101,77,67,95,70,85,78,67>>, 102 >>,
  \* 125: PmMemFlush_FUNC
  << <<80,109,77,101,109,70,108,117,115,104,95,70,85,78,67>>, 103 >>,
  \* 126: PmMemReleaseMC_FUNC
  << <<80,109,77,101,109,82,101,108,101,97,115,101,77,67,95,70,85,78,67>>, 104 >>,
  \* 127: PmMemStart_FUNC
  << <<80,109,77,101,109,83,116,97,114,116,95,70,85,78,67>>, 105 >>,
  \* 128: PmMemStop_FUNC
  << <<80,109,77,101,109,83,116,111,112,95,70,85,78,67>>, 106 >>,
  \* 129: PtAddCallback_FUNC
  << <<80,116,65,100,100,67,97,108,108,98,97,99,107,95,70,85,78,67>>, 107 >>,
  \* 130: PtAddEventHandler_FUNC
  << <<80,116,65,100,100,69,118,101,110,116,72,97,110,100,108,101,114,95,70,85,78,67>>, 108 >>,
  \* 131: PtAddFilterCallback_FUNC
  << <<80,116,65,100,100,70,105,108,116,101,114,67,97,108,108,98,97,99,107,95,70,85,78,67>>, 109 >>,
  \* 132: PtAddHotkeyHandler_FUNC
  << <<80,116,65,100,100,72,111,116,107,101,121,72,97,110,100,108,101,114,95,70,85,78,67>>, 110 >>,
  \* 133: PtAlert_FUNC
  << <<80,116,65,108,101,114,116,95,70,85,78,67>>, 111 >>,
  \* 134: PtAppAddInput_FUNC
  << <<80,116,65,112,112,65,100,100,73,110,112,117,116,95,70,85,78,67>>, 112 >>,
  \* 135: PtAppAddWorkProc_FUNC
  << <<80,116,65,112,112,65,100,100,87,111,114,107,80,114,111,99,95,70,85,78,67>>, 113 >>,
  \* 136: PtAppCreatePulse_FUNC
  << <<80,116,65,112,112,67,114,101,97,116,101,80,117,108,115,101,95,70,85,78,67>>, 114 >>,
  \* 137: PtAppDeletePulse_FUNC
  << <<80,116,65,112,112,68,101,108,101,116,101,80,117,108,115,101,95,70,85,78,67>>, 115 >>,
  \* 138: PtAppProcessEvent_FUNC
  << <<80,116,65,112,112,80,114,111,99,101,115,115,69,118,101,110,116,95,70,85,78,67>>, 116 >>,
  \* 139: PtAppPulseTrigger_FUNC
  << <<80,116,65,112,112,80,117,108,115,101,84,114,105,103,103,101,114,95,70,85,78,67>>, 117 >>,
  \* 140: PtAppRemoveInput_FUNC
  << <<80,116,65,112,112,82,101,109,111,118,101,73,110,112,117,116,95,70,85,78,67>>, 118 >>,
  \* 141: PtAppRemoveWorkProc_FUNC
  << <<80,116,65,112,112,82,101,109,111,118,101,87,111,114,107,80,114,111,99,95,70,85,78,67>>, 119 >>,
  \* 142: PtBeep_FUNC
  << <<80,116,66,101,101,112,95,70,85,78,67>>, 120 >>,
  \* 143: PtBlit_FUNC
  << <<80,116,66,108,105,116,95,70,85,78,67>>, 121 >>,
  \* 144: PtBlockAllWindows_FUNC
  << <<80,116,66,108,111,99,107,65,108,108,87,105,110,100,111,119,115,95,70,85,78,67>>, 122 >>,
  \* 145: PtBlockWindow_FUNC
  << <<80,116,66,108,111,99,107,87,105,110,100,111,119,95,70,85,78,67>>, 123 >>,
  \* 146: PtButton_FUNC
  << <<80,116,66,117,116,116,111,110,95,70,85,78,67>>, 124 >>,
  \* 147: PtCalcBorder_FUNC
  << <<80,116,67,97,108,99,66,111,114,100,101,114,95,70,85,78,67>>, 125 >>,
  \* 148: PtCalcCanvas_FUNC
  << <<80,116,67,97,108,99,67,97,110,118,97,115,95,70,85,78,67>>, 126 >>,
  \* 149: PtClippedBlit_FUNC
  << <<80,116,67,108,105,112,112,101,100,66,108,105,116,95,70,85,78,67>>, 127 >>,
  \* 150: PtColorSelect_FUNC
  << <<80,116,67,111,108,111,114,83,101,108,101,99,116,95,70,85,78,67>>, 128 >>,
  \* 151: PtComboBox_FUNC
  << <<80,116,67,111,109,98,111,66,111,120,95,70,85,78,67>>, 129 >>,
  \* 152: PtContainer_FUNC
  << <<80,116,67,111,110,116,97,105,110,101,114,95,70,85,78,67>>, 130 >>,
  \* 153: PtContainerFindFocus_FUNC
  << <<80,116,67,111,110,116,97,105,110,101,114,70,105,110,100,70,111,99,117,115,95,70,85,78,67>>, 131 >>,
  \* 154: PtContainerFocusNext_FUNC
  << <<80,116,67,111,110,116,97,105,110,101,114,70,111,99,117,115,78,101,120,116,95,70,85,78,67>>, 132 >>,
  \* 155: PtContainerFocusPrev_FUNC
  << <<80,116,67,111,110,116,97,105,110,101,114,70,111,99,117,115,80,114,101,118,95,70,85,78,67>>, 133 >>,
  \* 156: PtContainerGiveFocus_FUNC
  << <<80,116,67,111,110,116,97,105,110,101,114,71,105,118,101,70,111,99,117,115,95,70,85,78,67>>, 134 >>,
  \* 157: PtContainerHold_FUNC
  << <<80,116,67,111,110,116,97,105,110,101,114,72,111,108,100,95,70,85,78,67>>, 135 >>,
  \* 158: PtContainerRelease_FUNC
  << <<80,116,67,111,110,116,97,105,110,101,114,82,101,108,101,97,115,101,95,70,85,78,67>>, 136 >>,
  \* 159: PtCreateAppContext_FUNC
  << <<80,116,67,114,101,97,116,101,65,112,112,67,111,110,116,101,120,116,95,70,85,78,67>>, 137 >>,
  \* 160: PtCreateWidget_FUNC
  << <<80,116,67,114,101,97,116,101,87,105,100,103,101,116,95,70,85,78,67>>, 138 >>,
  \* 161: PtCreateWidgetClass_FUNC
  << <<80,116,67,114,101,97,116,101,87,105,100,103,101,116,67,108,97,115,115,95,70,85,78,67>>, 139 >>,
  \* 162: PtDamageExtent_FUNC
  << <<80,116,68,97,109,97,103,101,69,120,116,101,110,116,95,70,85,78,67>>, 140 >>,
  \* 163: PtDamageWidget_FUNC
  << <<80,116,68,97,109,97,103,101,87,105,100,103,101,116,95,70,85,78,67>>, 141 >>,
  \* 164: PtDestroyWidget_FUNC
  << <<80,116,68,101,115,116,114,111,121,87,105,100,103,101,116,95,70,85,78,67>>, 142 >>,
  \* 165: PtDisjoint_FUNC
  << <<80,116,68,105,115,106,111,105,110,116,95,70,85,78,67>>, 143 >>,
  \* 166: PtEnter_FUNC
  << <<80,116,69,110,116,101,114,95,70,85,78,67>>, 144 >>,
  \* 167: PtEventHandler_FUNC
  << <<80,116,69,118,101,110,116,72,97,110,100,108,101,114,95,70,85,78,67>>, 145 >>,
  \* 168: PtExtentWidget_FUNC
  << <<80,116,69,120,116,101,110,116,87,105,100,103,101,116,95,70,85,78,67>>, 146 >>,
  \* 169: PtExtentWidgetFamily_FUNC
  << <<80,116,69,120,116,101,110,116,87,105,100,103,101,116,70,97,109,105,108,121,95,70,85,78,67>>, 147 >>,
  \* 170: PtFileSelection_FUNC
  << <<80,116,70,105,108,101,83,101,108,101,99,116,105,111,110,95,70,85,78,67>>, 148 >>,
  \* 171: PtFindDisjoint_FUNC
  << <<80,116,70,105,110,100,68,105,115,106,111,105,110,116,95,70,85,78,67>>, 149 >>,
  \* 172: PtFlush_FUNC
  << <<80,116,70,108,117,115,104,95,70,85,78,67>>, 150 >>,
  \* 173: PtFontSelection_FUNC
  << <<80,116,70,111,110,116,83,101,108,101,99,116,105,111,110,95,70,85,78,67>>, 151 >>,
  \* 174: PtForwardWindowEvent_FUNC
  << <<80,116,70,111,114,119,97,114,100,87,105,110,100,111,119,69,118,101,110,116,95,70,85,78,67>>, 152 >>,
  \* 175: PtFrameSize_FUNC
  << <<80,116,70,114,97,109,101,83,105,122,101,95,70,85,78,67>>, 153 >>,
  \* 176: PtGetAbsPosition_FUNC
  << <<80,116,71,101,116,65,98,115,80,111,115,105,116,105,111,110,95,70,85,78,67>>, 154 >>,
  \* 177: PtGetResources_FUNC
  << <<80,116,71,101,116,82,101,115,111,117,114,99,101,115,95,70,85,78,67>>, 155 >>,
  \* 178: PtGlobalFocusNext_FUNC
  << <<80,116,71,108,111,98,97,108,70,111,99,117,115,78,101,120,116,95,70,85,78,67>>, 156 >>,
  \* 179: PtGlobalFocusNextContainer_FUNC
  << <<80,116,71,108,111,98,97,108,70,111,99,117,115,78,101,120,116,67,111,110,116,97,105,110,101,114,95,70,85,78,67>>, 157 >>,
  \* 180: PtGlobalFocusPrev_FUNC
  << <<80,116,71,108,111,98,97,108,70,111,99,117,115,80,114,101,118,95,70,85,78,67>>, 158 >>,
  \* 181: PtGlobalFocusPrevContainer_FUNC
  << <<80,116,71,108,111,98,97,108,70,111,99,117,115,80,114,101,118,67,111,110,116,97,105,110,101,114,95,70,85,78,67>>, 159 >>,
  \* 182: PtGroup_FUNC
  << <<80,116,71,114,111,117,112,95,70,85,78,67>>, 160 >>,
  \* 183: PtHit_FUNC
  << <<80,116,72,105,116,95,70,85,78,67>>, 161 >>,
  \* 184: PtHold_FUNC
  << <<80,116,72,111,108,100,95,70,85,78,67>>, 162 >>,
  \* 185: PtInflateBalloon_FUNC
  << <<80,116,73,110,102,108,97,116,101,66,97,108,108,111,111,110,95,70,85,78,67>>, 163 >>,
  \* 186: PtInit_FUNC
  << <<80,116,73,110,105,116,95,70,85,78,67>>, 164 >>,
  \* 187: PtIsFocused_FUNC
  << <<80,116,73,115,70,111,99,117,115,101,100,95,70,85,78,67>>, 165 >>,
  \* 188: PtLabel_FUNC
  << <<80,116,76,97,98,101,108,95,70,85,78,67>>, 166 >>,
  \* 189: PtLeave_FUNC
  << <<80,116,76,101,97,118,101,95,70,85,78,67>>, 167 >>,
  \* 190: PtList_FUNC
  << <<80,116,76,105,115,116,95,70,85,78,67>>, 168 >>,
  \* 191: PtListAddItems_FUNC
  << <<80,116,76,105,115,116,65,100,100,73,116,101,109,115,95,70,85,78,67>>, 169 >>,
  \* 192: PtListDeleteAllItems_FUNC
  << <<80,116,76,105,115,116,68,101,108,101,116,101,65,108,108,73,116,101,109,115,95,70,85,78,67>>, 170 >>,
  \* 193: PtListDeleteItemPos_FUNC
  << <<80,116,76,105,115,116,68,101,108,101,116,101,73,116,101,109,80,111,115,95,70,85,78,67>>, 171 >>,
  \* 194: PtListGotoPos_FUNC
  << <<80,116,76,105,115,116,71,111,116,111,80,111,115,95,70,85,78,67>>, 172 >>,
  \* 195: PtListItemPos_FUNC
  << <<80,116,76,105,115,116,73,116,101,109,80,111,115,95,70,85,78,67>>, 173 >>,
  \* 196: PtListReplaceItemPos_FUNC
  << <<80,116,76,105,115,116,82,101,112,108,97,99,101,73,116,101,109,80,111,115,95,70,85,78,67>>, 174 >>,
  \* 197: PtListSelectPos_FUNC
  << <<80,116,76,105,115,116,83,101,108,101,99,116,80,111,115,95,70,85,78,67>>, 175 >>,
  \* 198: PtListUnselectPos_FUNC
  << <<80,116,76,105,115,116,85,110,115,101,108,101,99,116,80,111,115,95,70,85,78,67>>, 176 >>,
  \* 199: PtMainLoop_FUNC
  << <<80,116,77,97,105,110,76,111,111,112,95,70,85,78,67>>, 177 >>,
  \* 200: PtMenu_FUNC
  << <<80,116,77,101,110,117,95,70,85,78,67>>, 178 >>,
  \* 201: PtMenuBar_FUNC
  << <<80,116,77,101,110,117,66,97,114,95,70,85,78,67>>, 179 >>,
  \* 202: PtMenuButton_FUNC
  << <<80,116,77,101,110,117,66,117,116,116,111,110,95,70,85,78,67>>, 180 >>,
  \* 203: PtMultiText_FUNC
  << <<80,116,77,117,108,116,105,84,101,120,116,95,70,85,78,67>>, 181 >>,
  \* 204: PtNextTopLevelWidget_FUNC
  << <<80,116,78,101,120,116,84,111,112,76,101,118,101,108,87,105,100,103,101,116,95,70,85,78,67>>, 182 >>,
  \* 205: PtPane_FUNC
  << <<80,116,80,97,110,101,95,70,85,78,67>>, 183 >>,
  \* 206: PtPanelGroup_FUNC
  << <<80,116,80,97,110,101,108,71,114,111,117,112,95,70,85,78,67>>, 184 >>,
  \* 207: PtPositionMenu_FUNC
  << <<80,116,80,111,115,105,116,105,111,110,77,101,110,117,95,70,85,78,67>>, 185 >>,
  \* 208: PtProgress_FUNC
  << <<80,116,80,114,111,103,114,101,115,115,95,70,85,78,67>>, 186 >>,
  \* 209: PtReParentWidget_FUNC
  << <<80,116,82,101,80,97,114,101,110,116,87,105,100,103,101,116,95,70,85,78,67>>, 187 >>,
  \* 210: PtRealizeWidget_FUNC
  << <<80,116,82,101,97,108,105,122,101,87,105,100,103,101,116,95,70,85,78,67>>, 188 >>,
  \* 211: PtRegion_FUNC
  << <<80,116,82,101,103,105,111,110,95,70,85,78,67>>, 189 >>,
  \* 212: PtRelease_FUNC
  << <<80,116,82,101,108,101,97,115,101,95,70,85,78,67>>, 190 >>,
  \* 213: PtRemoveCallback_FUNC
  << <<80,116,82,101,109,111,118,101,67,97,108,108,98,97,99,107,95,70,85,78,67>>, 191 >>,
  \* 214: PtRemoveHotkeyHandler_FUNC
  << <<80,116,82,101,109,111,118,101,72,111,116,107,101,121,72,97,110,100,108,101,114,95,70,85,78,67>>, 192 >>,
  \* 215: PtScrollArea_FUNC
  << <<80,116,83,99,114,111,108,108,65,114,101,97,95,70,85,78,67>>, 193 >>,
  \* 216: PtScrollContainer_FUNC
  << <<80,116,83,99,114,111,108,108,67,111,110,116,97,105,110,101,114,95,70,85,78,67>>, 194 >>,
  \* 217: PtScrollbar_FUNC
  << <<80,116,83,99,114,111,108,108,98,97,114,95,70,85,78,67>>, 195 >>,
  \* 218: PtSendEventToWidget_FUNC
  << <<80,116,83,101,110,100,69,118,101,110,116,84,111,87,105,100,103,101,116,95,70,85,78,67>>, 196 >>,
  \* 219: PtSeparator_FUNC
  << <<80,116,83,101,112,97,114,97,116,111,114,95,70,85,78,67>>, 197 >>,
  \* 220: PtSetAreaFromWidgetCanvas_FUNC
  << <<80,116,83,101,116,65,114,101,97,70,114,111,109,87,105,100,103,101,116,67,97,110,118,97,115,95,70,85,78,67>>, 198 >>,
  \* 221: PtSetParentWidget_FUNC
  << <<80,116,83,101,116,80,97,114,101,110,116,87,105,100,103,101,116,95,70,85,78,67>>, 199 >>,
  \* 222: PtSetResource_FUNC
  << <<80,116,83,101,116,82,101,115,111,117,114,99,101,95,70,85,78,67>>, 200 >>,
  \* 223: PtSetResources_FUNC
  << <<80,116,83,101,116,82,101,115,111,117,114,99,101,115,95,70,85,78,67>>, 201 >>,
  \* 224: PtSlider_FUNC
  << <<80,116,83,108,105,100,101,114,95,70,85,78,67>>, 202 >>,
  \* 225: PtSuperClassDraw_FUNC
  << <<80,116,83,117,112,101,114,67,108,97,115,115,68,114,97,119,95,70,85,78,67>>, 203 >>,
  \* 226: PtSyncWidget_FUNC
  << <<80,116,83,121,110,99,87,105,100,103,101,116,95,70,85,78,67>>, 204 >>,
  \* 227: PtText_FUNC
  << <<80,116,84,101,120,116,95,70,85,78,67>>, 205 >>,
  \* 228: PtTextGetSelection_FUNC
  << <<80,116,84,101,120,116,71,101,116,83,101,108,101,99,116,105,111,110,95,70,85,78,67>>, 206 >>,
  \* 229: PtTextModifyText__IIIIII_FUNC
  << <<80,116,84,101,120,116,77,111,100,105,102,121,84,101,120,116,95,95,73,73,73,73,73,73,95,70,85,78,67>>, 207 >>,
  \* 230: PtTextModifyText__IIII_3BI_FUNC
  << <<80,116,84,101,120,116,77,111,100,105,102,121,84,101,120,116,95,95,73,73,73,73,95,51,66,73,95,70,85,78,67>>, 208 >>,
  \* 231: PtTextSetSelection_FUNC
  << <<80,116,84,101,120,116,83,101,116,83,101,108,101,99,116,105,111,110,95,70,85,78,67>>, 209 >>,
  \* 232: PtTimer_FUNC
  << <<80,116,84,105,109,101,114,95,70,85,78,67>>, 210 >>,
  \* 233: PtToggleButton_FUNC
  << <<80,116,84,111,103,103,108,101,66,117,116,116,111,110,95,70,85,78,67>>, 211 >>,
  \* 234: PtToolbar_FUNC
  << <<80,116,84,111,111,108,98,97,114,95,70,85,78,67>>, 212 >>,
  \* 235: PtUnblockWindows_FUNC
  << <<80,116,85,110,98,108,111,99,107,87,105,110,100,111,119,115,95,70,85,78,67>>, 213 >>,
  \* 236: PtUnrealizeWidget_FUNC
  << <<80,116,85,110,114,101,97,108,105,122,101,87,105,100,103,101,116,95,70,85,78,67>>, 214 >>,
  \* 237: PtValidParent_FUNC
  << <<80,116,86,97,108,105,100,80,97,114,101,110,116,95,70,85,78,67>>, 215 >>,
  \* 238: PtWebClient_FUNC
  << <<80,116,87,101,98,67,108,105,101,110,116,95,70,85,78,67>>, 216 >>,
  \* 239: PtWidgetArea_FUNC
  << <<80,116,87,105,100,103,101,116,65,114,101,97,95,70,85,78,67>>, 217 >>,
  \* 240: PtWidgetBrotherBehind_FUNC
  << <<80,116,87,105,100,103,101,116,66,114,111,116,104,101,114,66,101,104,105,110,100,95,70,85,78,67>>, 218 >>,
  \* 241: PtWidgetBrotherInFront_FUNC
  << <<80,116,87,105,100,103,101,116,66,114,111,116,104,101,114,73,110,70,114,111,110,116,95,70,85,78,67>>, 219 >>,
  \* 242: PtWidgetCanvas__II_FUNC
  << <<80,116,87,105,100,103,101,116,67,97,110,118,97,115,95,95,73,73,95,70,85,78,67>>, 220 >>,
  \* 243: PtWidgetCanvas__ILorg_eclipse_swt_internal_photon_PhRect_1t_2_FUNC
  << <<80,116,87,105,100,103,101,116,67,97,110,118,97,115,95,95,73,76,111,114,103,95,101,99,108,105,112,115,101,95,115,119,116,95,105,110,116,101,114,110,97,108,95,112,104,111,116,111,110,95,80,104,82,101,99,116,95,49,116,95,50,95,70,85,78,67>>, 221 >>,
  \* 244: PtWidgetChildBack_FUNC
  << <<80,116,87,105,100,103,101,116,67,104,105,108,100,66,97,99,107,95,70,85,78,67>>, 222 >>,
  \* 245: PtWidgetChildFront_FUNC
  << <<80,116,87,105,100,103,101,116,67,104,105,108,100,70,114,111,110,116,95,70,85,78,67>>, 223 >>,
  \* 246: PtWidgetClass_FUNC
  << <<80,116,87,105,100,103,101,116,67,108,97,115,115,95,70,85,78,67>>, 224 >>,
  \* 247: PtWidgetExtent__II_FUNC
  << <<80,116,87,105,100,103,101,116,69,120,116,101,110,116,95,95,73,73,95,70,85,78,67>>, 225 >>,
  \* 248: PtWidgetExtent__ILorg_eclipse_swt_internal_photon_PhRect_1t_2_FUNC
  << <<80,116,87,105,100,103,101,116,69,120,116,101,110,116,95,95,73,76,111,114,103,95,101,99,108,105,112,115,101,95,115,119,116,95,105,110,116,101,114,110,97,108,95,112,104,111,116,111,110,95,80,104,82,101,99,116,95,49,116,95,50,95,70,85,78,67>>, 226 >>,
  \* 249: PtWidgetFlags_FUNC
  << <<80,116,87,105,100,103,101,116,70,108,97,103,115,95,70,85,78,67>>, 227 >>,
  \* 250: PtWidgetInsert_FUNC
  << <<80,116,87,105,100,103,101,116,73,110,115,101,114,116,95,70,85,78,67>>, 228 >>,
  \* 251: PtWidgetIsClassMember_FUNC
  << <<80,116,87,105,100,103,101,116,73,115,67,108,97,115,115,77,101,109,98,101,114,95,70,85,78,67>>, 229 >>,
  \* 252: PtWidgetIsRealized_FUNC
  << <<80,116,87,105,100,103,101,116,73,115,82,101,97,108,105,122,101,100,95,70,85,78,67>>, 230 >>,
  \* 253: PtWidgetOffset_FUNC
  << <<80,116,87,105,100,103,101,116,79,102,102,115,101,116,95,70,85,78,67>>, 231 >>,
  \* 254: PtWidgetParent_FUNC
  << <<80,116,87,105,100,103,101,116,80,97,114,101,110,116,95,70,85,78,67>>, 232 >>,
  \* 255: PtWidgetPreferredSize_FUNC
  << <<80,116,87,105,100,103,101,116,80,114,101,102,101,114,114,101,100,83,105,122,101,95,70,85,78,67>>, 233 >>,
  \* 256: PtWidgetRid_FUNC
  << <<80,116,87,105,100,103,101,116,82,105,100,95,70,85,78,67>>, 234 >>,
  \* 257: PtWidgetToBack_FUNC
  << <<80,116,87,105,100,103,101,116,84,111,66,97,99,107,95,70,85,78,67>>, 235 >>,
  \* 258: PtWidgetToFront_FUNC
  << <<80,116,87,105,100,103,101,116,84,111,70,114,111,110,116,95,70,85,78,67>>, 236 >>,
  \* 259: PtWindow_FUNC
  << <<80,116,87,105,110,100,111,119,95,70,85,78,67>>, 237 >>,
  \* 260: PtWindowFocus_FUNC
  << <<80,116,87,105,110,100,111,119,70,111,99,117,115,95,70,85,78,67>>, 238 >>,
  \* 261: PtWindowGetState_FUNC
  << <<80,116,87,105,110,100,111,119,71,101,116,83,116,97,116,101,95,70,85,78,67>>, 239 >>,
  \* 262: PtWindowToBack_FUNC
  << <<80,116,87,105,110,100,111,119,84,111,66,97,99,107,95,70,85,78,67>>, 240 >>,
  \* 263: PtWindowToFront_FUNC
  << <<80,116,87,105,110,100,111,119,84,111,70,114,111,110,116,95,70,85,78,67>>, 241 >>,
  \* 264: free_FUNC
  << <<102,114,101,101,95,70,85,78,67>>, 242 >>,
  \* 265: getenv_FUNC
  << <<103,101,116,101,110,118,95,70,85,78,67>>, 243 >>,
  \* 266: malloc_FUNC
  << <<109,97,108,108,111,99,95,70,85,78,67>>, 244 >>,
  \* 267: memmove__III_FUNC
  << <<109,101,109,109,111,118,101,95,95,73,73,73,95,70,85,78,67>>, 245 >>,
  \* 268: memmove__ILorg_eclipse_swt_internal_photon_PgAlpha_1t_2I_FUNC
  << <<109,101,109,109,111,118,101,95,95,73,76,111,114,103,95,101,99,108,105,112,115,101,95,115,119,116,95,105,110,116,101,114,110,97,108,95,112,104,111,116,111,110,95,80,103,65,108,112,104,97,95,49,116,95,50,73,95,70,85,78,67>>, 246 >>,
  \* 269: memmove__ILorg_eclipse_swt_internal_photon_PhArea_1t_2I_FUNC
  << <<109,101,109,109,111,118,101,95,95,73,76,111,114,103,95,101,99,108,105,112,115,101,95,115,119,116,95,105,110,116,101,114,110,97,108,95,112,104,111,116,111,110,95,80,104,65,114,101,97,95,49,116,95,50,73,95,70,85,78,67>>, 247 >>,
  \* 270: memmove__ILorg_eclipse_swt_internal_photon_PhCursorDef_1t_2I_FUNC
  << <<109,101,109,109,111,118,101,95,95,73,76,111,114,103,95,101,99,108,105,112,115,101,95,115,119,116,95,105,110,116,101,114,110,97,108,95,112,104,111,116,111,110,95,80,104,67,117,114,115,111,114,68,101,102,95,49,116,95,50,73,95,70,85,78,67>>, 248 >>,
  \* 271: memmove__ILorg_eclipse_swt_internal_photon_PhEvent_1t_2I_FUNC
  << <<109,101,109,109,111,118,101,95,95,73,76,111,114,103,95,101,99,108,105,112,115,101,95,115,119,116,95,105,110,116,101,114,110,97,108,95,112,104,111,116,111,110,95,80,104,69,118,101,110,116,95,49,116,95,50,73,95,70,85,78,67>>, 249 >>,
  \* 272: memmove__ILorg_eclipse_swt_internal_photon_PhImage_1t_2I_FUNC
  << <<109,101,109,109,111,118,101,95,95,73,76,111,114,103,95,101,99,108,105,112,115,101,95,115,119,116,95,105,110,116,101,114,110,97,108,95,112,104,111,116,111,110,95,80,104,73,109,97,103,101,95,49,116,95,50,73,95,70,85,78,67>>, 250 >>,
  \* 273: memmove__ILorg_eclipse_swt_internal_photon_PhPoint_1t_2I_FUNC
  << <<109,101,109,109,111,118,101,95,95,73,76,111,114,103,95,101,99,108,105,112,115,101,95,115,119,116,95,105,110,116,101,114,110,97,108,95,112,104,111,116,111,110,95,80,104,80,111,105,110,116,95,49,116,95,50,73,95,70,85,78,67>>, 251 >>,
  \* 274: memmove__ILorg_eclipse_swt_internal_photon_PhPointerEvent_1t_2I_FUNC
  << <<109,101,109,109,111,118,101,95,95,73,76,111,114,103,95,101,99,108,105,112,115,101,95,115,119,116,95,105,110,116,101,114,110,97,108,95,112,104,111,116,111,110,95,80,104,80,111,105,110,116,101,114,69,118,101,110,116,95,49,116,95,50,73,95,70,85,78,67>>, 252 >>,
  \* 275: memmove__ILorg_eclipse_swt_internal_photon_PhRect_1t_2I_FUNC
  << <<109,101,109,109,111,118,101,95,95,73,76,111,114,103,95,101,99,108,105,112,115,101,95,115,119,116,95,105,110,116,101,114,110,97,108,95,112,104,111,116,111,110,95,80,104,82,101,99,116,95,49,116,95,50,73,95,70,85,78,67>>, 253 >>,
  \* 276: memmove__ILorg_eclipse_swt_internal_photon_PhTile_1t_2I_FUNC
  << <<109,101,109,109,111,118,101,95,95,73,76,111,114,103,95,101,99,108,105,112,115,101,95,115,119,116,95,105,110,116,101,114,110,97,108,95,112,104,111,116,111,110,95,80,104,84,105,108,101,95,49,116,95,50,73,95,70,85,78,67>>, 254 >>,
  \* 277: memmove__ILorg_eclipse_swt_internal_photon_PtTextCallback_1t_2I_FUNC
  << <<109,101,109,109,111,118,101,95,95,73,76,111,114,103,95,101,99,108,105,112,115,101,95,115,119,116,95,105,110,116,101,114,110,97,108,95,112,104,111,116,111,110,95,80,116,84,101,120,116,67,97,108,108,98,97,99,107,95,49,116,95,50,73,95,70,85,78,67>>, 255 >>,
  \* 278: memmove__ILorg_eclipse_swt_internal_photon_PtWebClientData_1t_2I_FUNC
  << <<109,101,109,109,111,118,101,95,95,73,76,111,114,103,95,101,99,108,105,112,115,101,95,115,119,116,95,105,110,116,101,114,110,97,108,95,112,104,111,116,111,110,95,80,116,87,101,98,67,108,105,101,110,116,68,97,116,97,95,49,116,95,50,73,95,70,85,78,67>>, 256 >>,
  \* 279: memmove__I_3BI_FUNC
  << <<109,101,109,109,111,118,101,95,95,73,95,51,66,73,95,70,85,78,67>>, 257 >>,
  \* 280: memmove__I_3II_FUNC
  << <<109,101,109,109,111,118,101,95,95,73,95,51,73,73,95,70,85,78,67>>, 258 >>,
  \* 281: memmove__Lorg_eclipse_swt_internal_photon_FontDetails_2II_FUNC
  << <<109,101,109,109,111,118,101,95,95,76,111,114,103,95,101,99,108,105,112,115,101,95,115,119,116,95,105,110,116,101,114,110,97,108,95,112,104,111,116,111,110,95,70,111,110,116,68,101,116,97,105,108,115,95,50,73,73,95,70,85,78,67>>, 259 >>,
  \* 282: memmove__Lorg_eclipse_swt_internal_photon_PgAlpha_1t_2II_FUNC
  << <<109,101,109,109,111,118,101,95,95,76,111,114,103,95,101,99,108,105,112,115,101,95,115,119,116,95,105,110,116,101,114,110,97,108,95,112,104,111,116,111,110,95,80,103,65,108,112,104,97,95,49,116,95,50,73,73,95,70,85,78,67>>, 260 >>,
  \* 283: memmove__Lorg_eclipse_swt_internal_photon_PgMap_1t_2II_FUNC
  << <<109,101,109,109,111,118,101,95,95,76,111,114,103,95,101,99,108,105,112,115,101,95,115,119,116,95,105,110,116,101,114,110,97,108,95,112,104,111,116,111,110,95,80,103,77,97,112,95,49,116,95,50,73,73,95,70,85,78,67>>, 261 >>,
  \* 284: memmove__Lorg_eclipse_swt_internal_photon_PhClipHeader_2II_FUNC
  << <<109,101,109,109,111,118,101,95,95,76,111,114,103,95,101,99,108,105,112,115,101,95,115,119,116,95,105,110,116,101,114,110,97,108,95,112,104,111,116,111,110,95,80,104,67,108,105,112,72,101,97,100,101,114,95,50,73,73,95,70,85,78,67>>, 262 >>,
  \* 285: memmove__Lorg_eclipse_swt_internal_photon_PhEvent_1t_2II_FUNC
  << <<109,101,109,109,111,118,101,95,95,76,111,114,103,95,101,99,108,105,112,115,101,95,115,119,116,95,105,110,116,101,114,110,97,108,95,112,104,111,116,111,110,95,80,104,69,118,101,110,116,95,49,116,95,50,73,73,95,70,85,78,67>>, 263 >>,
  \* 286: memmove__Lorg_eclipse_swt_internal_photon_PhImage_1t_2II_FUNC
  << <<109,101,109,109,111,118,101,95,95,76,111,114,103,95,101,99,108,105,112,115,101,95,115,119,116,95,105,110,116,101,114,110,97,108,95,112,104,111,116,111,110,95,80,104,73,109,97,103,101,95,49,116,95,50,73,73,95,70,85,78,67>>, 264 >>,
  \* 287: memmove__Lorg_eclipse_swt_internal_photon_PhKeyEvent_1t_2II_FUNC
  << <<109,101,109,109,111,118,101,95,95,76,111,114,103,95,101,99,108,105,112,115,101,95,115,119,116,95,105,110,116,101,114,110,97,108,95,112,104,111,116,111,110,95,80,104,75,101,121,69,118,101,110,116,95,49,116,95,50,73,73,95,70,85,78,67>>, 265 >>,
  \* 288: memmove__Lorg_eclipse_swt_internal_photon_PhPointerEvent_1t_2II_FUNC
  << <<109,101,109,109,111,118,101,95,95,76,111,114,103,95,101,99,108,105,112,115,101,95,115,119,116,95,105,110,116,101,114,110,97,108,95,112,104,111,116,111,110,95,80,104,80,111,105,110,116,101,114,69,118,101,110,116,95,49,116,95,50,73,73,95,70,85,78,67>>, 266 >>,
  \* 289: memmove__Lorg_eclipse_swt_internal_photon_PhRect_1t_2II_FUNC
  << <<109,101,109,109,111,118,101,95,95,76,111,114,103,95,101,99,108,105,112,115,101,95,115,119,116,95,105,110,116,101,114,110,97,108,95,112,104,111,116,111,110,95,80,104,82,101,99,116,95,49,116,95,50,73,73,95,70,85,78,67>>, 267 >>,
  \* 290: memmove__Lorg_eclipse_swt_internal_photon_PhTile_1t_2II_FUNC
  << <<109,101,109,109,111,118,101,95,95,76,111,114,103,95,101,99,108,105,112,115,101,95,115,119,116,95,105,110,116,101,114,110,97,108,95,112,104,111,116,111,110,95,80,104,84,105,108,101,95,49,116,95,50,73,73,95,70,85,78,67>>, 268 >>,
  \* 291: memmove__Lorg_eclipse_swt_internal_photon_PhWindowEvent_1t_2II_FUNC
  << <<109,101,109,109,111,118,101,95,95,76,111,114,103,95,101,99,108,105,112,115,101,95,115,119,116,95,105,110,116,101,114,110,97,108,95,112,104,111,116,111,110,95,80,104,87,105,110,100,111,119,69,118,101,110,116,95,49,116,95,50,73,73,95,70,85,78,67>>, 269 >>,
  \* 292: memmove__Lorg_eclipse_swt_internal_photon_PtCallbackInfo_1t_2II_FUNC
  << <<109,101,109,109,111,118,101,95,95,76,111,114,103,95,101,99,108,105,112,115,101,95,115,119,116,95,105,110,116,101,114,110,97,108,95,112,104,111,116,111,110,95,80,116,67,97,108,108,98,97,99,107,73,110,102,111,95,49,116,95,50,73,73,95,70,85,78,67>>, 270 >>,
  \* 293: memmove__Lorg_eclipse_swt_internal_photon_PtScrollbarCallback_1t_2II_FUNC
  << <<109,101,109,109,111,118,101,95,95,76,111,114,103,95,101,99,108,105,112,115,101,95,115,119,116,95,105,110,116,101,114,110,97,108,95,112,104,111,116,111,110,95,80,116,83,99,114,111,108,108,98,97,114,67,97,108,108,98,97,99,107,95,49,116,95,50,73,73,95,70,85,78,67>>, 271 >>,
  \* 294: memmove__Lorg_eclipse_swt_internal_photon_PtTextCallback_1t_2II_FUNC
  << <<109,101,109,109,111,118,101,95,95,76,111,114,103,95,101,99,108,105,112,115,101,95,115,119,116,95,105,110,116,101,114,110,97,108,95,112,104,111,116,111,110,95,80,116,84,101,120,116,67,97,108,108,98,97,99,107,95,49,116,95,50,73,73,95,70,85,78,67>>, 272 >>,
  \* 295: memmove__Lorg_eclipse_swt_internal_photon_PtWebDataReqCallback_1t_2II_FUNC
  << <<109,101,109,109,111,118,101,95,95,76,111,114,103,95,101,99,108,105,112,115,101,95,115,119,116,95,105,110,116,101,114,110,97,108,95,112,104,111,116,111,110,95,80,116,87,101,98,68,97,116,97,82,101,113,67,97,108,108,98,97,99,107,95,49,116,95,50,73,73,95,70,85,78,67>>, 273 >>,
  \* 296: memmove__Lorg_eclipse_swt_internal_photon_PtWebMetaDataCallback_1t_2II_FUNC
  << <<109,101,109,109,111,118,101,95,95,76,111,114,103,95,101,99,108,105,112,115,101,95,115,119,116,95,105,110,116,101,114,110,97,108,95,112,104,111,116,111,110,95,80,116,87,101,98,77,101,116,97,68,97,116,97,67,97,108,108,98,97,99,107,95,49,116,95,50,73,73,95,70,85,78,67>>, 274 >>,
  \* 297: memmove__Lorg_eclipse_swt_internal_photon_PtWebStatusCallback_1t_2II_FUNC
  << <<109,101,109,109,111,118,101,95,95,76,111,114,103,95,101,99,108,105,112,115,101,95,115,119,116,95,105,110,116,101,114,110,97,108,95,112,104,111,116,111,110,95,80,116,87,101,98,83,116,97,116,117,115,67,97,108,108,98,97,99,107,95,49,116,95,50,73,73,95,70,85,78,67>>, 275 >>,
  \* 298: memmove__Lorg_eclipse_swt_internal_photon_PtWebWindowCallback_1t_2II_FUNC
  << <<109,101,109,109,111,118,101,95,95,76,111,114,103,95,101,99,108,105,112,115,101,95,115,119,116,95,105,110,116,101,114,110,97,108,95,112,104,111,116,111,110,95,80,116,87,101,98,87,105,110,100,111,119,67,97,108,108,98,97,99,107,95,49,116,95,50,73,73,95,70,85,78,67>>, 276 >>,
  \* 299: memmove___3BII_FUNC
  << <<109,101,109,109,111,118,101,95,95,95,51,66,73,73,95,70,85,78,67>>, 277 >>,
  \* 300: memmove___3BLorg_eclipse_swt_internal_photon_PhClipHeader_2I_FUNC
  << <<109,101,109,109,111,118,101,95,95,95,51,66,76,111,114,103,95,101,99,108,105,112,115,101,95,115,119,116,95,105,110,116,101,114,110,97,108,95,112,104,111,116,111,110,95,80,104,67,108,105,112,72,101,97,100,101,114,95,50,73,95,70,85,78,67>>, 278 >>,
  \* 301: memmove___3III_FUNC
  << <<109,101,109,109,111,118,101,95,95,95,51,73,73,73,95,70,85,78,67>>, 279 >>,
  \* 302: memmove___3SII_FUNC
  << <<109,101,109,109,111,118,101,95,95,95,51,83,73,73,95,70,85,78,67>>, 280 >>,
  \* 303: memset_FUNC
  << <<109,101,109,115,101,116,95,70,85,78,67>>, 281 >>,
  \* 304: strdup_FUNC
  << <<115,116,114,100,117,112,95,70,85,78,67>>, 282 >>,
  \* 305: strlen_FUNC
  << <<115,116,114,108,101,110,95,70,85,78,67>>, 283 >>,
  \* 306: uname_FUNC
  << <<117,110,97,109,101,95,70,85,78,67>>, 284 >>
>>

(***************************************************************************)
(* Helpers on the #define lines.                                           *)
(***************************************************************************)

\* The number of #define <name>_FUNC lines of the header.
DefineCount == Len(FuncDefines)

\* The macro identifier (bytes) the k-th #define line introduces.
MacroName(k) == FuncDefines[k][1]

\* DefineValue with the last constant numbered like the one before it: a
\* table regenerated with one identifier used twice and the last one missing.
DefineValueDuplicate(k) ==
  IF k = DefineCount THEN FuncDefines[k - 1][2] ELSE FuncDefines[k][2]

\* The replacement the k-th #define line gives: the function identifier.
DefineValue(k) == FuncDefines[k][2]

\* The bytes of "_FUNC", the suffix every identifier constant carries.
FuncSuffix == <<95, 70, 85, 78, 67>>

\* FunctionName as a generator that sorts the macro identifiers themselves
\* would have it: the suffix is kept.
FunctionNameKeepSuffix(macro) == macro

\* The entry-point name a constant stands for: the macro identifier
\* without its _FUNC suffix.
FunctionName(macro) == SubSeq(macro, 1, Len(macro) - Len(FuncSuffix))

(***************************************************************************)
(* Bounds of the model.  Besides these, the trampolines run are those of   *)
(* two entry points (ExercisedLines) and a behaviour holds at most one     *)
(* long run of calls (RepeatCalls); both tables keep all their slots.      *)
(***************************************************************************)

\* Execution contexts the host may run trampolines on.
NumThreads == 2

\* Trampoline calls started one by one, over all threads.
MaxCalls == 2

\* Calls of the reporting routine.
MaxReports == 2

(***************************************************************************)
(* The machine integer of line 13, "int OS_nativeFunctionCallCount[]".     *)
(***************************************************************************)
INT_MAX == 2147483647

INT_MIN == -INT_MAX - 1

\* The length of a run of back-to-back calls: long enough that the counter
\* of the function called comes within one call of INT_MAX.
RepeatCount == INT_MAX - 1

\* The number of entries of both tables: one per identifier constant.
OS_nativeFunctionCount == DefineCount

\* The function identifiers: the indices of both tables.
FuncIds == 0..(OS_nativeFunctionCount - 1)

Threads == 1..NumThreads

\* The #define lines (positions in lines 22-306) of the entry points whose
\* trampolines the model runs: the first one and the last one.
ExercisedLines == {1, DefineCount}

\* The value of "func" in a thread that is in no trampoline: one past the
\* last identifier, an index of neither table.
NoFunc == OS_nativeFunctionCount

VARIABLES
  line,      \* preprocessor: number of #define lines of 22-306 read so far
  NATIVE_STATS,                \* build flag: is NATIVE_STATS defined
  OS_nativeFunctionCallCount,  \* line 13: the Call Count Table
  OS_nativeFunctionNames,      \* line 14: the Function Name Table
  nthreads,  \* how many execution contexts the host runs trampolines on
  pc,        \* per thread: position in its trampoline
  func,      \* per thread: the identifier its trampoline passes to the macros
  loaded,    \* per thread: the counter value read by the increment
  calls,     \* trampoline calls started one by one so far
  aborted,   \* the process was killed by a trapping signed overflow
  reports,   \* calls of the reporting routine so far
  lastReport,\* what the last call of the reporting routine returned
             \* (no entries before the first call)
  entered,   \* history: bag of <<thread, identifier>>, one copy per
             \* completed OS_NATIVE_ENTER of a call started by Call
  repeated   \* history: bag of <<thread, identifier>>, one copy per
             \* completed RepeatCalls (RepeatCount calls each)

tables == <<OS_nativeFunctionCallCount, OS_nativeFunctionNames>>
threadvars == <<pc, func, loaded>>
vars == <<line, NATIVE_STATS, OS_nativeFunctionCallCount,
          OS_nativeFunctionNames, nthreads, pc, func, loaded, calls, aborted,
          reports, lastReport, entered, repeated>>

\* One macro table entry.
MacroEntry(k) == [name |-> MacroName(k), value |-> DefineValue(k)]

\* The preprocessor's macro table: one entry per #define line read so far.
macros == [k \in 1..line |-> MacroEntry(k)]

\* The number of entries of the macro table.
MacroCount == line

\* The Call Count Table at process start: static storage, all zero.
InitialCallCount == [i \in FuncIds |-> 0]

\* A char* of the name table points to a string literal.  The literal
\* holding the entry-point name of #define line k is referred to as k, and
\* StringAt gives the bytes a pointer points to (literals are read-only).
StringAt(p) == FunctionName(MacroName(p))

\* The name table lists the entry-point names in the order of the #define
\* lines: slot i points to the name of the (i + 1)-th line.
InitialNames == [i \in FuncIds |-> i + 1]

\* The state of the program part: nothing has run yet.
InitProgram ==
  /\ OS_nativeFunctionCallCount = InitialCallCount
  /\ OS_nativeFunctionNames = InitialNames
  /\ pc = [t \in Threads |-> "idle"]
  /\ func = [t \in Threads |-> NoFunc]
  /\ loaded = [t \in Threads |-> 0]
  /\ calls = 0
  /\ aborted = FALSE
  /\ reports = 0
  /\ lastReport = [name |-> << >>, count |-> << >>]
  /\ entered = EmptyBag
  /\ repeated = EmptyBag

(***************************************************************************)
(* SpecDefines: the preprocessor reads the identifier constants, which lie  *)
(* outside the #ifdef and are read in both builds.  The program is not     *)
(* running yet.                                                            *)
(***************************************************************************)
InitDefines ==
  /\ line = 0
  /\ NATIVE_STATS \in BOOLEAN
  /\ nthreads = 1
  /\ InitProgram

\* The preprocessor reads the next "#define X_FUNC n" line.
Define ==
  /\ line < DefineCount
  /\ line' = line + 1
  /\ UNCHANGED <<NATIVE_STATS, tables, nthreads, threadvars, calls, aborted,
                 reports, lastReport, entered, repeated>>

NextDefines == Define

SpecDefines == InitDefines /\ [][NextDefines]_vars

\* All of lines 22-306 have been read.
DefinesDone == line = DefineCount

(***************************************************************************)
(* The macros of lines 12-20.                                              *)
(***************************************************************************)

\* v++ on an int: v + 1, and on INT_MAX (undefined behaviour) the value a
\* wrapping build produces.  The trapping outcome is the action EnterTrap.
IntIncrement(v) == IF v < INT_MAX THEN v + 1 ELSE INT_MIN

\* OS_NATIVE_ENTER that reads the counter and writes nothing back.
OS_NATIVE_ENTER_NoStore(stats, cnt, f, v) == cnt

\* OS_NATIVE_ENTER that also counts into the next slot of the table.
OS_NATIVE_ENTER_Neighbour(stats, cnt, f, v) ==
  IF stats
  THEN [i \in DOMAIN cnt |->
          IF i = f THEN IntIncrement(v)
          ELSE IF i = (f + 1) % OS_nativeFunctionCount
               THEN IntIncrement(cnt[i])
               ELSE cnt[i]]
  ELSE cnt

\* OS_NATIVE_ENTER whose counting expansion is not guarded by NATIVE_STATS.
OS_NATIVE_ENTER_Unguarded(stats, cnt, f, v) ==
  [cnt EXCEPT ![f] = IntIncrement(v)]

\* OS_NATIVE_ENTER as an atomic increment: one more than the counter holds
\* at the time of the write, whatever was read before.
OS_NATIVE_ENTER_Atomic(stats, cnt, f, v) ==
  IF stats THEN [cnt EXCEPT ![f] = IntIncrement(cnt[f])] ELSE cnt

\* OS_NATIVE_ENTER that counts down.
OS_NATIVE_ENTER_Decrement(stats, cnt, f, v) ==
  IF stats THEN [cnt EXCEPT ![f] = v - 1] ELSE cnt

\* OS_NATIVE_ENTER that counts every call twice.
OS_NATIVE_ENTER_Twice(stats, cnt, f, v) ==
  IF stats THEN [cnt EXCEPT ![f] = IntIncrement(IntIncrement(v))] ELSE cnt

\* OS_NATIVE_ENTER(env, that, func): the table after the expansion has
\* stored, v being the counter value its increment read.  With NATIVE_STATS
\* it is "OS_nativeFunctionCallCount[func]++;" (line 15); without, nothing
\* (line 18).
OS_NATIVE_ENTER(stats, cnt, f, v) ==
  IF stats THEN [cnt EXCEPT ![f] = IntIncrement(v)] ELSE cnt

\* OS_NATIVE_EXIT that takes the call out of the count again, making the
\* counters hold the calls in progress.
OS_NATIVE_EXIT_Uncount(stats, cnt, f) ==
  IF stats THEN [cnt EXCEPT ![f] = @ - 1] ELSE cnt

\* OS_NATIVE_EXIT(env, that, func): expands to nothing with NATIVE_STATS
\* (line 16) and without (line 19).
OS_NATIVE_EXIT(stats, cnt, f) == cnt

(***************************************************************************)
(* Spec: the running program.  A trampoline is                             *)
(*     OS_NATIVE_ENTER(env, that, X_FUNC)   pc "enter", "incr"             *)
(*     the native call                      pc "native"                    *)
(*     OS_NATIVE_EXIT(env, that, X_FUNC)    the step that leaves "native"  *)
(* The increment of line 15 is a read of the counter followed by a write   *)
(* of the value read plus one; nothing orders it against other threads.    *)
(***************************************************************************)
Init ==
  /\ line = DefineCount
  /\ NATIVE_STATS \in BOOLEAN
  /\ nthreads \in 1..NumThreads
  /\ InitProgram

\* Thread t starts the trampoline of the entry point of #define line k; the
\* preprocessor has replaced X_FUNC by the value of the macro.
Call(t, k) ==
  /\ ~aborted
  /\ pc[t] = "idle"
  /\ calls < MaxCalls
  /\ calls' = calls + 1
  /\ func' = [func EXCEPT ![t] = macros[k].value]
  /\ pc' = [pc EXCEPT ![t] = "enter"]
  /\ UNCHANGED <<line, NATIVE_STATS, tables, nthreads, loaded, aborted,
                 reports, lastReport, entered, repeated>>

\* OS_NATIVE_ENTER with NATIVE_STATS, first half: read the counter.
EnterLoad(t) ==
  /\ ~aborted
  /\ NATIVE_STATS
  /\ pc[t] = "enter"
  /\ loaded' = [loaded EXCEPT ![t] = OS_nativeFunctionCallCount[func[t]]]
  /\ pc' = [pc EXCEPT ![t] = "incr"]
  /\ UNCHANGED <<line, NATIVE_STATS, tables, nthreads, func, calls,
                 aborted, reports, lastReport, entered, repeated>>

\* OS_NATIVE_ENTER with NATIVE_STATS, second half: write the value read
\* plus one (wrapped, when the value read is INT_MAX).
EnterStore(t) ==
  /\ ~aborted
  /\ pc[t] = "incr"
  /\ OS_nativeFunctionCallCount' =
       OS_NATIVE_ENTER(NATIVE_STATS, OS_nativeFunctionCallCount, func[t],
                       loaded[t])
  /\ loaded' = [loaded EXCEPT ![t] = 0]
  /\ entered' = entered (+) SetToBag({<<t, func[t]>>})
  /\ pc' = [pc EXCEPT ![t] = "native"]
  /\ UNCHANGED <<line, NATIVE_STATS, OS_nativeFunctionNames, nthreads,
                 func, calls, aborted, reports, lastReport, repeated>>

\* OS_NATIVE_ENTER with NATIVE_STATS, the increment of INT_MAX in a build
\* that traps on signed overflow: the process is killed.
EnterTrap(t) ==
  /\ ~aborted
  /\ pc[t] = "incr"
  /\ loaded[t] = INT_MAX
  /\ aborted' = TRUE
  /\ UNCHANGED <<line, NATIVE_STATS, tables, nthreads, threadvars, calls,
                 reports, lastReport, entered, repeated>>

\* OS_NATIVE_ENTER without NATIVE_STATS.
EnterDisabled(t) ==
  /\ ~aborted
  /\ ~NATIVE_STATS
  /\ pc[t] = "enter"
  /\ OS_nativeFunctionCallCount' =
       OS_NATIVE_ENTER(NATIVE_STATS, OS_nativeFunctionCallCount, func[t],
                       OS_nativeFunctionCallCount[func[t]])
  /\ entered' = entered (+) SetToBag({<<t, func[t]>>})
  /\ pc' = [pc EXCEPT ![t] = "native"]
  /\ UNCHANGED <<line, NATIVE_STATS, OS_nativeFunctionNames, nthreads,
                 func, loaded, calls, aborted, reports, lastReport, repeated>>

\* The native entry point returns, OS_NATIVE_EXIT is run and the trampoline
\* returns.
Exit(t) ==
  /\ ~aborted
  /\ pc[t] = "native"
  /\ OS_nativeFunctionCallCount' =
       OS_NATIVE_EXIT(NATIVE_STATS, OS_nativeFunctionCallCount, func[t])
  /\ func' = [func EXCEPT ![t] = NoFunc]
  /\ pc' = [pc EXCEPT ![t] = "idle"]
  /\ UNCHANGED <<line, NATIVE_STATS, OS_nativeFunctionNames, nthreads,
                 loaded, calls, aborted, reports, lastReport, entered,
                 repeated>>

\* Thread t runs RepeatCount whole trampolines of the entry point of
\* #define line k back to back while no other thread takes a step: each is
\* one uninterrupted OS_NATIVE_ENTER, native call and OS_NATIVE_EXIT, so
\* together they add RepeatCount to the counter.  Taken at most once in a
\* behaviour, and only where none of these increments overflows.
RepeatCalls(t, k) ==
  LET f == macros[k].value IN
  /\ ~aborted
  /\ pc[t] = "idle"
  /\ repeated = EmptyBag
  /\ NATIVE_STATS =>
       /\ OS_nativeFunctionCallCount[f] >= 0
       /\ OS_nativeFunctionCallCount[f] <= INT_MAX - RepeatCount
  /\ OS_nativeFunctionCallCount' =
       IF NATIVE_STATS
       THEN [OS_nativeFunctionCallCount EXCEPT ![f] = @ + RepeatCount]
       ELSE OS_nativeFunctionCallCount
  /\ repeated' = repeated (+) SetToBag({<<t, f>>})
  /\ UNCHANGED <<line, NATIVE_STATS, OS_nativeFunctionNames, nthreads,
                 threadvars, calls, aborted, reports, lastReport, entered>>

\* The reporting routine: for each identifier, its name and its count.  The
\* result is held by columns: entry i is (name[i], count[i]).
ReportResult(names, cnt) == [name |-> names, count |-> cnt]

\* A reporting routine that clears the counters it has reported.
ReportAndReset ==
  /\ ~aborted
  /\ NATIVE_STATS
  /\ reports < MaxReports
  /\ reports' = reports + 1
  /\ lastReport' = ReportResult(OS_nativeFunctionNames,
                                OS_nativeFunctionCallCount)
  /\ OS_nativeFunctionCallCount' = InitialCallCount
  /\ UNCHANGED <<line, NATIVE_STATS, OS_nativeFunctionNames, nthreads,
                 threadvars, calls, aborted, entered, repeated>>

\* The reporting routine is called: it reads both tables and returns their
\* contents.  It exists only in a build with NATIVE_STATS.
Report ==
  /\ ~aborted
  /\ NATIVE_STATS
  /\ reports < MaxReports
  /\ reports' = reports + 1
  /\ lastReport' = ReportResult(OS_nativeFunctionNames,
                                OS_nativeFunctionCallCount)
  /\ UNCHANGED <<line, NATIVE_STATS, tables, nthreads, threadvars, calls,
                 aborted, entered, repeated>>

Next ==
  \/ \E t \in 1..nthreads, k \in ExercisedLines : Call(t, k)
  \/ \E t \in 1..nthreads : EnterLoad(t)
  \/ \E t \in 1..nthreads : EnterStore(t)
  \/ \E t \in 1..nthreads : EnterTrap(t)
  \/ \E t \in 1..nthreads : EnterDisabled(t)
  \/ \E t \in 1..nthreads : Exit(t)
  \/ \E t \in 1..nthreads, k \in ExercisedLines : RepeatCalls(t, k)

Spec == Init /\ [][Next]_vars

(***************************************************************************)
(* SpecReport: the running program together with the reporting routine,    *)
(* which may be called at any time.                                        *)
(***************************************************************************)
NextReport ==
  \/ Next
  \/ Report

SpecReport == Init /\ [][NextReport]_vars

(***************************************************************************)
(* History: how many OS_NATIVE_ENTER expansions have completed.            *)
(***************************************************************************)

\* Copies in bag B of the pairs <<thread, i>>, over all threads.
CopiesOf(B, i) ==
  LET S == {e \in BagToSet(B) : e[2] = i}
  IN BagCardinality([e \in S |-> B[e]])

\* Completed enters of identifier i in calls started one by one.
Singles(i) == CopiesOf(entered, i)

\* Completed runs of RepeatCount calls of identifier i.
Repeats(i) == CopiesOf(repeated, i)

\* k, the number of completed enters of i, is
\*     Repeats(i) * RepeatCount + Singles(i),
\* which can exceed INT_MAX, the largest integer TLC computes with.
\* KFits(i) is k <= INT_MAX, decided without computing k, and K(i) is k
\* where KFits(i) holds.
KFits(i) ==
  \/ Repeats(i) = 0
  \/ Repeats(i) = 1 /\ Singles(i) <= INT_MAX - RepeatCount

K(i) == Repeats(i) * RepeatCount + Singles(i)

\* The threads that have completed an enter of i.
EnteredBy(i) ==
  {t \in Threads :
     CopiesIn(<<t, i>>, entered) + CopiesIn(<<t, i>>, repeated) > 0}

AllIdle == \A t \in Threads : pc[t] = "idle"

\* The step is the write of thread t's OS_NATIVE_ENTER (either build).
EnterWrites(t) == pc[t] \in {"enter", "incr"} /\ pc'[t] = "native"

\* The step is any step of thread t's OS_NATIVE_ENTER.
EnterSteps(t) == pc[t] \in {"enter", "incr"} /\ pc'[t] # pc[t]

\* The step is thread t's OS_NATIVE_EXIT.
ExitSteps(t) == pc[t] = "native" /\ pc'[t] = "idle"

\* The step is a run of back-to-back calls of identifier i.
RepeatSteps(i) == CopiesOf(repeated', i) > CopiesOf(repeated, i)

\* The step is a call of the reporting routine.
ReportSteps == reports' = reports + 1

\* C1 as stated: with NATIVE_STATS and one thread, after k completed enters
\* of i the counter of i equals k, for every i and every k >= 0.  (A
\* k > INT_MAX is not the value of any int counter.)
C1_CountEqualsEntersForEveryK ==
  (NATIVE_STATS /\ nthreads = 1) =>
    \A i \in FuncIds : KFits(i) /\ OS_nativeFunctionCallCount[i] = K(i)

\* C1 amended: with NATIVE_STATS and one thread, after k completed enters
\* of i the counter of i equals k, for every i and every k in 0..INT_MAX.
C1_CountEqualsEnters ==
  (NATIVE_STATS /\ nthreads = 1) =>
    \A i \in FuncIds : KFits(i) => OS_nativeFunctionCallCount[i] = K(i)

\* C1 witness: one thread has completed INT_MAX enters of one identifier,
\* whose counter holds INT_MAX, and an enter and exit of another.
C1_Witness ==
  /\ NATIVE_STATS
  /\ nthreads = 1
  /\ AllIdle
  /\ \E i, j \in FuncIds :
       /\ i # j
       /\ Repeats(i) = 1
       /\ Singles(i) = 1
       /\ OS_nativeFunctionCallCount[i] = INT_MAX
       /\ Singles(j) >= 1

\* C2: no step of OS_NATIVE_ENTER with identifier i (and no run of calls
\* of i) changes the counter of an identifier j # i.
C2_EnterKeepsOtherCounters ==
  [][/\ \A t \in Threads :
          EnterSteps(t) =>
            \A j \in FuncIds \ {func[t]} :
              OS_nativeFunctionCallCount'[j] = OS_nativeFunctionCallCount[j]
     /\ \A e \in BagToSet(repeated') :
          RepeatSteps(e[2]) =>
            \A j \in FuncIds \ {e[2]} :
              OS_nativeFunctionCallCount'[j] = OS_nativeFunctionCallCount[j]
    ]_vars

\* C2 witness: two different identifiers have been entered and each
\* counter holds exactly its own enters.
C2_Witness ==
  /\ NATIVE_STATS
  /\ \E i, j \in FuncIds :
       /\ i # j
       /\ Singles(i) >= 1 /\ Repeats(i) = 0
       /\ Singles(j) >= 1 /\ Repeats(j) = 0
       /\ OS_nativeFunctionCallCount[i] = Singles(i)
       /\ OS_nativeFunctionCallCount[j] = Singles(j)

\* C3: without NATIVE_STATS, whatever enters and exits have run, both
\* tables are as at process start and no counter has been read.
C3_DisabledChangesNothing ==
  ~NATIVE_STATS =>
    /\ OS_nativeFunctionCallCount = InitialCallCount
    /\ OS_nativeFunctionNames = InitialNames
    /\ \A t \in Threads : loaded[t] = 0

\* C3 witness: without NATIVE_STATS, enters and exits of two identifiers
\* have completed, one of them more than once.
C3_Witness ==
  /\ ~NATIVE_STATS
  /\ AllIdle
  /\ \E i, j \in FuncIds :
       /\ i # j
       /\ Singles(i) >= 1
       /\ Repeats(i) >= 1
       /\ Singles(j) >= 1

\* C5: the increment of OS_NATIVE_ENTER is a read-modify-write that is not
\* atomic: its write stores one more than the value the thread read
\* earlier, whatever the counter holds by then, so that an enter of another
\* thread completed in between is lost (the witness).
C5_WriteUsesValueReadEarlier ==
  [][\A t \in Threads :
       (NATIVE_STATS /\ EnterWrites(t) /\ loaded[t] < INT_MAX) =>
         OS_nativeFunctionCallCount'[func[t]] = loaded[t] + 1]_vars

\* C5 witness: k >= 2 enters of one identifier have completed, no call is
\* in progress, and the counter is less than k.
C5_LostUpdate ==
  /\ NATIVE_STATS
  /\ AllIdle
  /\ \E i \in FuncIds :
       /\ Repeats(i) = 0
       /\ Singles(i) >= 2
       /\ OS_nativeFunctionCallCount[i] < Singles(i)

\* C6: OS_NATIVE_EXIT changes neither table, with NATIVE_STATS and without.
C6_ExitChangesNothing ==
  [][\A t \in Threads :
       ExitSteps(t) =>
         UNCHANGED <<OS_nativeFunctionCallCount, OS_nativeFunctionNames,
                     lastReport, entered, repeated>>]_vars

\* C6 witness: with NATIVE_STATS, every call entered has also exited, and
\* a counter still holds the calls entered.
C6_Witness ==
  /\ NATIVE_STATS
  /\ AllIdle
  /\ \E i \in FuncIds :
       /\ Repeats(i) = 0
       /\ Singles(i) >= 2
       /\ OS_nativeFunctionCallCount[i] = Singles(i)

\* C8 as stated: every counter is >= 0 in every reachable state, and no
\* step ever decreases a counter.
C8_NeverNegativeNeverDecreases ==
  [][\A i \in FuncIds :
       /\ OS_nativeFunctionCallCount'[i] >= 0
       /\ OS_nativeFunctionCallCount'[i] >= OS_nativeFunctionCallCount[i]
    ]_vars

\* C8 amended: a counter is changed only by the write of an enter on its
\* own identifier (never by exit or report, never reset); while at most
\* INT_MAX enters of i have completed, counter i is >= 0; and with one
\* thread no step decreases a counter that is below INT_MAX.
C8_CounterChangedOnlyByOwnEnter ==
  /\ [][\/ UNCHANGED OS_nativeFunctionCallCount
        \/ \E t \in Threads :
             /\ EnterWrites(t)
             /\ OS_nativeFunctionCallCount' =
                  [OS_nativeFunctionCallCount EXCEPT
                     ![func[t]] = OS_nativeFunctionCallCount'[func[t]]]
        \/ \E e \in BagToSet(repeated') :
             /\ RepeatSteps(e[2])
             /\ OS_nativeFunctionCallCount' =
                  [OS_nativeFunctionCallCount EXCEPT
                     ![e[2]] = OS_nativeFunctionCallCount'[e[2]]]
       ]_vars
  /\ [](\A i \in FuncIds : OS_nativeFunctionCallCount[i] >= 0 \/ ~KFits(i))
  /\ [][nthreads = 1 =>
          \A i \in FuncIds :
            \/ OS_nativeFunctionCallCount'[i] >= OS_nativeFunctionCallCount[i]
            \/ OS_nativeFunctionCallCount[i] = INT_MAX
       ]_vars

\* C8 witness: with one thread, a counter has reached INT_MAX, the largest
\* value an int holds, after enters, exits and a report.
C8_Witness ==
  /\ NATIVE_STATS
  /\ nthreads = 1
  /\ AllIdle
  /\ reports >= 1
  /\ \E i \in FuncIds :
       /\ KFits(i)
       /\ K(i) = INT_MAX
       /\ OS_nativeFunctionCallCount[i] = INT_MAX

\* C9: a call of the reporting routine changes neither table; it returns
\* the name and the count each table holds; and it returns the same name
\* for every identifier as the call before it.
C9_ReportReadOnly ==
  [][ReportSteps =>
       /\ UNCHANGED <<OS_nativeFunctionCallCount, OS_nativeFunctionNames>>
       /\ DOMAIN lastReport'.name = FuncIds
       /\ DOMAIN lastReport'.count = FuncIds
       /\ lastReport'.count = OS_nativeFunctionCallCount
       /\ lastReport'.name = OS_nativeFunctionNames
       /\ reports >= 1 =>
            \/ lastReport'.name = lastReport.name
            \/ \A i \in FuncIds :
                 StringAt(lastReport'.name[i]) = StringAt(lastReport.name[i])
    ]_vars

\* C9 witness: the reporting routine has been called twice, between enters
\* of an identifier: the second call reported a count, and the table has
\* counted on since.
C9_Witness ==
  /\ reports = 2
  /\ \E i \in FuncIds :
       /\ lastReport.count[i] >= 1
       /\ OS_nativeFunctionCallCount[i] > lastReport.count[i]

\* C10: under any interleaving, absent overflow (k <= INT_MAX), once k >= 1
\* enters of i have completed, counter i is in 1..k; and it is exactly k
\* when all of them were made by one thread, whatever other threads enter.
C10_CountWithinOneToK ==
  NATIVE_STATS =>
    \A i \in FuncIds :
      (KFits(i) /\ K(i) >= 1) =>
        /\ OS_nativeFunctionCallCount[i] >= 1
        /\ OS_nativeFunctionCallCount[i] <= K(i)
        /\ Cardinality(EnteredBy(i)) = 1 =>
             OS_nativeFunctionCallCount[i] = K(i)

\* C10 witness: two threads have completed INT_MAX enters of one
\* identifier between them and its counter holds 1, the least the claim
\* allows: one thread read 0, the other ran INT_MAX - 1 calls, and the
\* first thread then wrote 1.
C10_Witness ==
  /\ NATIVE_STATS
  /\ \E i \in FuncIds :
       /\ KFits(i)
       /\ K(i) = INT_MAX
       /\ Cardinality(EnteredBy(i)) = 2
       /\ OS_nativeFunctionCallCount[i] = 1

(***************************************************************************)
(* Byte-wise lexicographic order on names (the order of strcmp): a < b iff  *)
(* at the first position where they differ a has the smaller byte, or a is *)
(* a proper prefix of b.                                                   *)
(***************************************************************************)
\* The first position where a and b differ, or one past the shorter of the
\* two when one is a prefix of the other.
FirstDifference(a, b) ==
  LET m == IF Len(a) < Len(b) THEN Len(a) ELSE Len(b)
      d == {p \in 1..m : a[p] # b[p]}
  IN IF d = {} THEN m + 1 ELSE CHOOSE p \in d : \A q \in d : p <= q

ByteLess(a, b) ==
  LET p == FirstDifference(a, b)
  IN IF p > Len(a) THEN p <= Len(b)
     ELSE IF p > Len(b) THEN FALSE
     ELSE a[p] < b[p]

\* The base name of an entry point: the bytes before the first "__"
\* (the JNI signature separator); the whole name when it has none.
BaseName(s) ==
  LET u == {p \in 1..(Len(s) - 1) : s[p] = 95 /\ s[p + 1] = 95}
  IN IF u = {} THEN s
     ELSE SubSeq(s, 1, (CHOOSE p \in u : \A q \in u : p <= q) - 1)

\* C4: the identifier constants form the contiguous range 0..N-1 with
\* N = 285: once lines 22-306 are read, there are 285 constants with
\* distinct names, every integer of 0..284 is the value of exactly one of
\* them, and no other value occurs.
C4_IdentifiersContiguous ==
  DefinesDone =>
    /\ MacroCount = 285
    /\ \A a, b \in 1..MacroCount : a # b => macros[a].name # macros[b].name
    /\ \A v \in 0..284 :
         Cardinality({k \in 1..MacroCount : macros[k].value = v}) = 1
    /\ \A k \in 1..MacroCount : macros[k].value \in 0..284

\* C4 witness: the whole table has been read and its last constant
\* (uname_FUNC) carries the largest identifier.
C4_Witness ==
  /\ DefinesDone
  /\ MacroCount = 285
  /\ macros[MacroCount].value = 284

\* C7: identifiers follow the byte-wise lexicographic order of the
\* entry-point names (macro identifier without _FUNC): for any two
\* constants a, b, name(a) < name(b) iff id(a) < id(b); the identifier of a
\* name is its rank among all names; and the overload variants of one base
\* name carry adjacent identifiers.
C7_IdentifiersFollowNameOrder ==
  DefinesDone =>
    LET n == MacroCount
        nm == [k \in 1..n |-> FunctionName(macros[k].name)]
        id == [k \in 1..n |-> macros[k].value]
        base == [k \in 1..n |-> BaseName(nm[k])]
    IN /\ \A a, b \in 1..n : ByteLess(nm[a], nm[b]) <=> id[a] < id[b]
       /\ \A a \in 1..n :
            id[a] = Cardinality({b \in 1..n : ByteLess(nm[b], nm[a])})
       /\ \A a, b \in 1..n :
            (base[a] = base[b] /\ id[a] < id[b]) =>
              \A c \in 1..n :
                (id[a] < id[c] /\ id[c] < id[b]) => base[c] = base[a]

\* C7 witness: the table is read, and it holds overload variants of one
\* base name (the two PfExtentText variants, identifiers 1 and 2) whose
\* order is decided by the signature suffix alone.
C7_Witness ==
  /\ DefinesDone
  /\ \E a, b \in 1..MacroCount :
       /\ macros[a].value + 1 = macros[b].value
       /\ FunctionName(macros[a].name) # FunctionName(macros[b].name)
       /\ BaseName(FunctionName(macros[a].name))
            = BaseName(FunctionName(macros[b].name))
       /\ ByteLess(FunctionName(macros[a].name), FunctionName(macros[b].name))

=============================================================================
